---- MODULE Spec2Model ----
(***************************************************************************)
(* The proposer tree of src/src/blockchain/proposer.rs (struct Tree) and   *)
(* its leader store, a column family of the key-value store behind         *)
(* Arc<Mutex<BlockChainDatabase>>.                                         *)
(*                                                                         *)
(* A panic unwinds: the call changes nothing it had not yet written, and   *)
(* the caller goes on with the same Tree.  A panic raised while the guard  *)
(* of the std::sync::Mutex is alive poisons the mutex, and every later     *)
(* lock().unwrap() panics.                                                 *)
(***************************************************************************)
EXTENDS Integers, Sequences, FiniteSets, TLC

\* ---------------------------------------------------------------- bounds
MaxLevel == 3       \* add_block_at_level is called with the levels 0..MaxLevel
MaxKeyLevel == 1    \* votes and leaders are keyed by the levels 0..MaxKeyLevel
MaxHash == 2        \* the block hashes passed to the operations are 1..MaxHash
MaxBlocks == 2      \* blocks held by prop_nodes, all levels together
MaxVotes == 2       \* votes counted by number_of_votes, all levels together
MaxItems == 3       \* blocks, votes, unreferred hashes and leaders, all together
MaxNodeVotes == 3   \* NodeData.votes stays within MaxNodeVotes of 0 or of u16::MAX
MaxKeys == 1        \* the key hashes generate_keypair can give are 1..MaxKeys
MaxValue == 2       \* a funding output is worth 1..MaxValue, pay is called with 0..MaxValue
MaxOutputs == 2     \* a funding transaction has 1..MaxOutputs outputs
MaxWalletItems == 6 \* keys, transactions received, their funds and transactions paid, all together

Levels == 0..MaxLevel
KeyLevels == 0..MaxKeyLevel
Hashes == 1..MaxHash

\* ------------------------------------------------------------- constants
H256Default == 0    \* H256::default(), the all-zero hash
KeyBytes == 4       \* bincode writes a u32 as 4 little-endian bytes
HashBytes == 32     \* an H256 is 32 bytes
U16 == 65536        \* NodeData.votes is a u16: the values 0..U16 - 1

VARIABLES
    best_block,             \* Tree.best_block
    best_level,             \* Tree.best_level
    prop_nodes,             \* Tree.prop_nodes, level L at index L + 1
    number_of_votes,        \* Tree.number_of_votes, a map level -> count
    min_unconfirmed_level,  \* Tree.min_unconfirmed_level
    unreferred,             \* Tree.unreferred
    db,                     \* the leader column family: key bytes -> value bytes
    poisoned,               \* the Mutex around the database is poisoned
    result,                 \* how the last call ended, and what it returned
    node,                   \* a NodeData: level, leadership_status, votes
    overflow_checks,        \* the build panics on integer overflow (debug profile)
    coins,                  \* Wallet.coins
    keypairs,               \* Wallet.keypairs, the key hashes of the map
    mempool,                \* the transactions of the shared MemoryPool, in insertion order
    mempool_lock,           \* who holds the Mutex around the MemoryPool
    context_update_chan,    \* the signals sent on the channel and not yet taken
    received,               \* the transactions that were passed to receive
    pc,                     \* where the running Wallet::pay is
    tx,                     \* the transaction of the running (or the last) Wallet::pay
    thread,                 \* the insert_leader_block call of each of two threads
    db_lock                 \* the thread that holds the Mutex around the database

tree == <<best_block, best_level, prop_nodes, number_of_votes,
          min_unconfirmed_level, unreferred>>
store == <<db, poisoned>>
nodeVars == <<node, overflow_checks>>
walletVars == <<coins, keypairs, mempool, mempool_lock, context_update_chan,
                received, pc, tx>>
vars == <<best_block, best_level, prop_nodes, number_of_votes,
          min_unconfirmed_level, unreferred, db, poisoned, result,
          node, overflow_checks,
          coins, keypairs, mempool, mempool_lock, context_update_chan,
          received, pc, tx, thread, db_lock>>
threadVars == <<thread, db_lock>>

\* ------------------------------------------------------------ call results
OK == "ok"
PanicGap == "Trying to insert a new proposer block at level greater than best level + 1."
PanicIndex == "index out of bounds"
PanicPoison == "PoisonError"
PanicExists == "The leader the level exists"
PanicNoLeader == "No leader block at level"
PanicDatabase == "Database error"
PanicAddOverflow == "attempt to add with overflow"
PanicSubOverflow == "attempt to subtract with overflow"

\* A call at `level` (0 for a call that takes none) that returned: `hash` is the H256 it returned, `flag` the bool
\* (H256Default and FALSE for a call that returns nothing).
Returned(op, level, hash, flag) ==
    [op |-> op, level |-> level, kind |-> OK, hash |-> hash, flag |-> flag,
     found |-> FALSE]
\* A call that panicked with the message msg.
Panicked(op, level, msg) ==
    [op |-> op, level |-> level, kind |-> msg, hash |-> H256Default, flag |-> FALSE,
     found |-> FALSE]
\* History kept with the record of a call: whether the store held a leader at
\* the call's level (the pool held the call's hash) when the call began.
Finding(r, found) == [r EXCEPT !.found = found]

\* ----------------------------------------------------------- serialization
\* bincode::serialize(&level): the u32 as KeyBytes little-endian bytes.
RECURSIVE Pow(_, _)
Pow(b, n) == IF n = 0 THEN 1 ELSE b * Pow(b, n - 1)
serialize_u32(level) == [i \in 1..KeyBytes |-> (level \div Pow(256, i - 1)) % 256]

\* bincode::serialize(&hash): the HashBytes bytes of the H256, here the hash
\* number written big-endian (the numbers of the model fit the low 3 bytes).
serialize_H256(hash) ==
    [i \in 1..HashBytes |->
        IF HashBytes - i < 3 THEN (hash \div Pow(256, HashBytes - i)) % 256 ELSE 0]

RECURSIVE BigEndian(_, _)
BigEndian(bytes, n) ==
    IF n = 0 THEN 0 ELSE 256 * BigEndian(bytes, n - 1) + bytes[n]
\* bincode::deserialize of the value bytes back to an H256.
deserialize_H256(bytes) == BigEndian(bytes, Len(bytes))

\* --------------------------------------------------- the storage collaborator
\* get_cf: Some(value) or None, as a sequence of at most one value.
get_cf(store_db, key) ==
    IF key \in DOMAIN store_db THEN <<store_db[key]>> ELSE <<>>
put_cf(store_db, key, value) ==
    [k \in DOMAIN store_db \cup {key} |-> IF k = key THEN value ELSE store_db[k]]
\* delete_cf: deleting a key the store does not hold succeeds and changes nothing.
delete_cf(store_db, key) ==
    [k \in DOMAIN store_db \ {key} |-> store_db[k]]

EmptyStore == [k \in {} |-> <<>>]

\* ------------------------------------------------------------------ NodeData
Leader == "Leader"
PotentialLeader == "PotentialLeader"
NotLeaderUnconfirmed == "NotLeaderUnconfirmed"
NotLeaderAndConfirmed == "NotLeaderAndConfirmed"
Status == {Leader, PotentialLeader, NotLeaderUnconfirmed, NotLeaderAndConfirmed}

\* impl Default for NodeData
NodeData_default ==
    [level |-> 0, leadership_status |-> PotentialLeader, votes |-> 0]

\* NodeData::genesis(number_of_voter_chains)
NodeData_genesis(number_of_voter_chains) ==
    [NodeData_default EXCEPT !.leadership_status = Leader,
                             !.votes = number_of_voter_chains]

\* A call on the NodeData returned, or panicked with msg.
NodeReturned(op) == Returned(op, 0, H256Default, FALSE)
NodePanicked(op, msg) == Panicked(op, 0, msg)

\* self.votes += 1 on a u16: past u16::MAX the debug profile panics and the
\* release profile wraps around
increment_vote ==
    IF node.votes + 1 < U16
    THEN /\ node' = [node EXCEPT !.votes = node.votes + 1]
         /\ result' = NodeReturned("increment_vote")
    ELSE IF overflow_checks
    THEN /\ node' = node
         /\ result' = NodePanicked("increment_vote", PanicAddOverflow)
    ELSE /\ node' = [node EXCEPT !.votes = (node.votes + 1) % U16]
         /\ result' = NodeReturned("increment_vote")

\* self.votes -= 1 on a u16: below 0 the debug profile panics and the release
\* profile wraps around to u16::MAX
decrement_vote ==
    IF node.votes - 1 >= 0
    THEN /\ node' = [node EXCEPT !.votes = node.votes - 1]
         /\ result' = NodeReturned("decrement_vote")
    ELSE IF overflow_checks
    THEN /\ node' = node
         /\ result' = NodePanicked("decrement_vote", PanicSubOverflow)
    ELSE /\ node' = [node EXCEPT !.votes = (node.votes - 1) % U16]
         /\ result' = NodeReturned("decrement_vote")

give_leader_status ==
    /\ node' = [node EXCEPT !.leadership_status = Leader]
    /\ result' = NodeReturned("give_leader_status")
give_potential_leader_status ==
    /\ node' = [node EXCEPT !.leadership_status = PotentialLeader]
    /\ result' = NodeReturned("give_potential_leader_status")
give_not_leader_status ==
    /\ node' = [node EXCEPT !.leadership_status = NotLeaderUnconfirmed]
    /\ result' = NodeReturned("give_not_leader_status")
give_not_leader_confirmed_status ==
    /\ node' = [node EXCEPT !.leadership_status = NotLeaderAndConfirmed]
    /\ result' = NodeReturned("give_not_leader_confirmed_status")

\* --------------------------------------------------------------- Wallet::new
NoTransaction == [input |-> <<>>, output |-> <<>>, signatures |-> <<>>]

\* a Wallet without coins and keys, an empty MemoryPool behind a free Mutex
\* and an empty channel; no pay is running
Wallet_new ==
    /\ coins = {}
    /\ keypairs = {}
    /\ mempool = <<>>
    /\ mempool_lock = "free"
    /\ context_update_chan = <<>>
    /\ received = {}
    /\ pc = "idle"
    /\ tx = NoTransaction

\* ------------------------------------------- threads sharing the database
Threads == {"t1", "t2"}
NoThread == "none"
IdleThread ==
    [pc |-> "idle", level |-> 0, hash |-> H256Default, serialized |-> <<>>,
     outcome |-> "none"]
\* no thread has called, the lock is free
NoCalls ==
    /\ thread = [t \in Threads |-> IdleThread]
    /\ db_lock = NoThread

\* ------------------------------------------------------------------ Tree::new
Init ==
    /\ node = NodeData_default
    /\ overflow_checks = TRUE
    /\ Wallet_new
    /\ NoCalls
    /\ best_block = H256Default
    /\ best_level = 0
    /\ prop_nodes = <<>>
    /\ number_of_votes = [l \in {} |-> 0]
    /\ min_unconfirmed_level = 1
    /\ unreferred = {}
    /\ db = EmptyStore
    /\ poisoned = FALSE
    /\ result = Returned("new", 0, H256Default, FALSE)

\* ------------------------------------------------------- add_block_at_level
RECURSIVE SumLen(_, _)
SumLen(nodes, n) == IF n = 0 THEN 0 ELSE Len(nodes[n]) + SumLen(nodes, n - 1)
\* the blocks prop_nodes holds
NumBlocks == SumLen(prop_nodes, Len(prop_nodes))

\* a fork replaces the list of its level
AppendToLevelReplacing(block, level) ==
    IF level + 1 <= Len(prop_nodes)
    THEN /\ prop_nodes' = [prop_nodes EXCEPT ![level + 1] = <<block>>]
         /\ result' = Returned("add_block_at_level", level, H256Default, FALSE)
         /\ UNCHANGED <<best_block, best_level, number_of_votes,
                        min_unconfirmed_level, unreferred, store>>
    ELSE /\ result' = Panicked("add_block_at_level", level, PanicIndex)
         /\ UNCHANGED <<tree, store>>

\* self.prop_nodes[level as usize].push(block), an index panic when the Vec
\* has no such element
AppendToLevel(block, level) ==
    IF level + 1 <= Len(prop_nodes)
    THEN /\ prop_nodes' = [prop_nodes EXCEPT ![level + 1] = Append(@, block)]
         /\ result' = Returned("add_block_at_level", level, H256Default, FALSE)
         /\ UNCHANGED <<best_block, best_level, number_of_votes,
                        min_unconfirmed_level, unreferred, store>>
    ELSE /\ result' = Panicked("add_block_at_level", level, PanicIndex)
         /\ UNCHANGED <<tree, store>>

\* self.prop_nodes.push(vec![block]); best_block = block; best_level = level
StartNewLevel(block, level) ==
    /\ prop_nodes' = Append(prop_nodes, <<block>>)
    /\ best_block' = block
    /\ best_level' = level
    /\ result' = Returned("add_block_at_level", level, H256Default, FALSE)
    /\ UNCHANGED <<number_of_votes, min_unconfirmed_level, unreferred, store>>

\* a level above best_level + 1 is taken as the next level
add_block_at_level_any_gap(block, level) ==
    IF best_level >= level
    THEN AppendToLevel(block, level)
    ELSE StartNewLevel(block, level)

add_block_at_level(block, level) ==
    IF best_level >= level
    THEN AppendToLevel(block, level)
    ELSE IF best_level = level - 1
    THEN StartNewLevel(block, level)
    ELSE /\ result' = Panicked("add_block_at_level", level, PanicGap)
         /\ UNCHANGED <<tree, store>>

\* -------------------------------------------------- increment_vote_at_level
RECURSIVE SumVotes(_, _)
SumVotes(votes, ls) ==
    IF ls = {} THEN 0
    ELSE LET l == CHOOSE x \in ls : TRUE IN votes[l] + SumVotes(votes, ls \ {l})
NumVotes == SumVotes(number_of_votes, DOMAIN number_of_votes)

\* the counter of the level as a caller reads it: a level without an entry
\* has no votes
Votes(level) ==
    IF level \in DOMAIN number_of_votes THEN number_of_votes[level] ELSE 0

\* the entry is written as 1 whatever it held
increment_vote_at_level_resetting(level) ==
    /\ number_of_votes' =
           [l \in DOMAIN number_of_votes \cup {level} |->
               IF l = level THEN 1 ELSE number_of_votes[l]]
    /\ result' = Returned("increment_vote_at_level", level, H256Default, FALSE)
    /\ UNCHANGED <<best_block, best_level, prop_nodes, min_unconfirmed_level,
                   unreferred, store>>

increment_vote_at_level(level) ==
    /\ number_of_votes' =
           [l \in DOMAIN number_of_votes \cup {level} |->
               IF l = level
               THEN (IF level \in DOMAIN number_of_votes
                     THEN number_of_votes[level] ELSE 0) + 1
               ELSE number_of_votes[l]]
    /\ result' = Returned("increment_vote_at_level", level, H256Default, FALSE)
    /\ UNCHANGED <<best_block, best_level, prop_nodes, min_unconfirmed_level,
                   unreferred, store>>

\* ------------------------------------------- insert_unreferred / remove_unreferred
\* a hash the pool already holds is refused
insert_unreferred_rejecting_present(hash) ==
    IF hash \in unreferred
    THEN /\ result' = Finding(Panicked("insert_unreferred", 0, PanicIndex), TRUE)
         /\ UNCHANGED <<tree, store>>
    ELSE /\ unreferred' = unreferred \cup {hash}
         /\ result' = Finding(Returned("insert_unreferred", 0, H256Default, FALSE),
                              FALSE)
         /\ UNCHANGED <<best_block, best_level, prop_nodes, number_of_votes,
                        min_unconfirmed_level, store>>

\* self.unreferred.insert(hash); the record keeps whether the pool held the
\* hash when the call began
insert_unreferred(hash) ==
    /\ unreferred' = unreferred \cup {hash}
    /\ result' = Finding(Returned("insert_unreferred", 0, H256Default, FALSE),
                         hash \in unreferred)
    /\ UNCHANGED <<best_block, best_level, prop_nodes, number_of_votes,
                   min_unconfirmed_level, store>>

\* self.unreferred.remove(hash)
remove_unreferred(hash) ==
    /\ unreferred' = unreferred \ {hash}
    /\ result' = Finding(Returned("remove_unreferred", 0, H256Default, FALSE),
                         hash \in unreferred)
    /\ UNCHANGED <<best_block, best_level, prop_nodes, number_of_votes,
                   min_unconfirmed_level, store>>

\* ------------------------------------------------------------ leader store
\* The store holds a leader for `level`, and which one.
HasLeader(level) == get_cf(db, serialize_u32(level)) # <<>>
LeaderAt(level) == deserialize_H256(db[serialize_u32(level)])

\* self.db.lock().unwrap() on a poisoned mutex
LockPanics(op, level) ==
    /\ result' = Panicked(op, level, PanicPoison)
    /\ UNCHANGED <<tree, store>>

\* panic!(..) while the MutexGuard `db` is alive: unwinding drops the guard
\* and poisons the mutex
PanicsHoldingLock(op, level, msg) ==
    /\ poisoned' = TRUE
    /\ result' = Finding(Panicked(op, level, msg), HasLeader(level))
    /\ UNCHANGED <<tree, db>>

\* ------------------------------------------------------- insert_leader_block
\* the write is made without looking for an entry
insert_leader_block_overwriting(level, hash) ==
    IF poisoned
    THEN LockPanics("insert_leader_block", level)
    ELSE /\ db' = put_cf(db, serialize_u32(level), serialize_H256(hash))
         /\ result' = Finding(Returned("insert_leader_block", level, H256Default, FALSE),
                              HasLeader(level))
         /\ UNCHANGED <<tree, poisoned>>

\* the insert moves the confirmation watermark past its level
insert_leader_block_confirming(level, hash) ==
    IF poisoned
    THEN LockPanics("insert_leader_block", level)
    ELSE LET key == serialize_u32(level)
             value == serialize_H256(hash)
             serialized == get_cf(db, key)
         IN IF serialized # <<>>
            THEN PanicsHoldingLock("insert_leader_block", level, PanicExists)
            ELSE /\ db' = put_cf(db, key, value)
                 /\ min_unconfirmed_level' = level + 1
                 /\ result' = Finding(Returned("insert_leader_block", level,
                                               H256Default, FALSE), FALSE)
                 /\ UNCHANGED <<best_block, best_level, prop_nodes, number_of_votes,
                                unreferred, poisoned>>

insert_leader_block(level, hash) ==
    IF poisoned
    THEN LockPanics("insert_leader_block", level)
    ELSE LET key == serialize_u32(level)
             value == serialize_H256(hash)
             serialized == get_cf(db, key)
         IN IF serialized # <<>>
            THEN PanicsHoldingLock("insert_leader_block", level, PanicExists)
            ELSE /\ db' = put_cf(db, key, value)
                 /\ result' = Finding(Returned("insert_leader_block", level,
                                               H256Default, FALSE), FALSE)
                 /\ UNCHANGED <<tree, poisoned>>

\* ------------------------------------------------------- remove_leader_block
\* a missing entry is taken as a failure
remove_leader_block_checking(level, deleted) ==
    IF poisoned
    THEN LockPanics("remove_leader_block", level)
    ELSE IF deleted /\ HasLeader(level)
         THEN /\ db' = delete_cf(db, serialize_u32(level))
              /\ result' = Finding(Returned("remove_leader_block", level,
                                            H256Default, FALSE), TRUE)
              /\ UNCHANGED <<tree, poisoned>>
         ELSE PanicsHoldingLock("remove_leader_block", level, PanicDatabase)

\* the entry is left in the store
remove_leader_block_keeping(level, deleted) ==
    IF poisoned
    THEN LockPanics("remove_leader_block", level)
    ELSE IF deleted
         THEN /\ result' = Finding(Returned("remove_leader_block", level,
                                            H256Default, FALSE), HasLeader(level))
              /\ UNCHANGED <<tree, store>>
         ELSE PanicsHoldingLock("remove_leader_block", level, PanicDatabase)

\* `deleted`: delete_cf returned Ok(_), not Err(e)
remove_leader_block(level, deleted) ==
    IF poisoned
    THEN LockPanics("remove_leader_block", level)
    ELSE LET key == serialize_u32(level)
         IN IF deleted
            THEN /\ db' = delete_cf(db, key)
                 /\ result' = Finding(Returned("remove_leader_block", level,
                                               H256Default, FALSE), HasLeader(level))
                 /\ UNCHANGED <<tree, poisoned>>
            ELSE PanicsHoldingLock("remove_leader_block", level, PanicDatabase)

\* ------------------------------------------------------- get_leader_block_at
get_leader_block_at(level) ==
    IF poisoned
    THEN LockPanics("get_leader_block_at", level)
    ELSE LET key == serialize_u32(level)
             serialized_option == get_cf(db, key)
         IN IF serialized_option # <<>>
            THEN /\ result' = Finding(Returned("get_leader_block_at", level,
                                               deserialize_H256(serialized_option[1]),
                                               FALSE), TRUE)
                 /\ UNCHANGED <<tree, store>>
            ELSE PanicsHoldingLock("get_leader_block_at", level, PanicNoLeader)

\* -------------------------------------------------- contains_leader_block_at
contains_leader_block_at(level) ==
    IF poisoned
    THEN LockPanics("contains_leader_block_at", level)
    ELSE LET key == serialize_u32(level)
             serialized_option == get_cf(db, key)
         IN /\ result' = Finding(Returned("contains_leader_block_at", level,
                                          H256Default, serialized_option # <<>>),
                                 serialized_option # <<>>)
            /\ UNCHANGED <<tree, store>>

\* ---------------------------------------------------------- specification
\* What the Tree and the store hold, kept within the bounds: a call that
\* would grow them further is left out.
NumItems == NumBlocks + NumVotes + Cardinality(unreferred) + Cardinality(DOMAIN db)
WithinBounds ==
    /\ NumBlocks <= MaxBlocks
    /\ NumVotes <= MaxVotes
    /\ NumItems <= MaxItems

\* a call on the Tree leaves everything that is not the Tree or its store alone
OnlyTree == UNCHANGED <<nodeVars, walletVars, threadVars>>

AddBlock ==
    \E block \in Hashes, level \in Levels :
        add_block_at_level(block, level) /\ WithinBounds' /\ OnlyTree
IncrementVote ==
    \E level \in KeyLevels :
        increment_vote_at_level(level) /\ WithinBounds' /\ OnlyTree
InsertUnreferred ==
    \E hash \in Hashes : insert_unreferred(hash) /\ WithinBounds' /\ OnlyTree
RemoveUnreferred ==
    \E hash \in Hashes : remove_unreferred(hash) /\ OnlyTree
InsertLeader ==
    \E level \in KeyLevels, hash \in Hashes :
        insert_leader_block(level, hash) /\ WithinBounds' /\ OnlyTree
RemoveLeader ==
    \E level \in KeyLevels, deleted \in BOOLEAN :
        remove_leader_block(level, deleted) /\ OnlyTree
GetLeader ==
    \E level \in KeyLevels : get_leader_block_at(level) /\ OnlyTree
ContainsLeader ==
    \E level \in KeyLevels : contains_leader_block_at(level) /\ OnlyTree

\* the operations on the fields of the Tree
NextTree ==
    \/ AddBlock
    \/ IncrementVote
    \/ InsertUnreferred
    \/ RemoveUnreferred

\* the operations on the leader store
NextLeader ==
    \/ InsertLeader
    \/ GetLeader
    \/ ContainsLeader
    \/ RemoveLeader

Next == NextTree \/ NextLeader

\* Any sequence of calls on one Tree.
Spec == Init /\ [][Next]_vars

\* ----------------------------------------------- specification of a NodeData
\* A NodeData made by default() or by genesis(n), in a debug or a release
\* build, and any sequence of calls on it.
VoterChains == (0..MaxNodeVotes) \cup ((U16 - 1 - MaxNodeVotes)..(U16 - 1))
VotesWithinBounds == node.votes \in VoterChains

InitNodeData ==
    /\ best_block = H256Default
    /\ best_level = 0
    /\ prop_nodes = <<>>
    /\ number_of_votes = [l \in {} |-> 0]
    /\ min_unconfirmed_level = 1
    /\ unreferred = {}
    /\ db = EmptyStore
    /\ poisoned = FALSE
    /\ Wallet_new
    /\ NoCalls
    /\ overflow_checks \in BOOLEAN
    /\ \/ node = NodeData_default /\ result = NodeReturned("default")
       \/ \E n \in VoterChains :
             node = NodeData_genesis(n) /\ result = NodeReturned("genesis")

\* a call on the NodeData leaves everything else alone
OnlyNodeData == UNCHANGED <<tree, store, overflow_checks, walletVars, threadVars>>

IncrementNodeVote == increment_vote /\ VotesWithinBounds' /\ OnlyNodeData
DecrementNodeVote == decrement_vote /\ VotesWithinBounds' /\ OnlyNodeData
GiveLeader == give_leader_status /\ OnlyNodeData
GivePotentialLeader == give_potential_leader_status /\ OnlyNodeData
GiveNotLeader == give_not_leader_status /\ OnlyNodeData
GiveNotLeaderConfirmed == give_not_leader_confirmed_status /\ OnlyNodeData

NextNodeData ==
    \/ IncrementNodeVote
    \/ DecrementNodeVote
    \/ GiveLeader
    \/ GivePotentialLeader
    \/ GiveNotLeader
    \/ GiveNotLeaderConfirmed

SpecNodeData == InitNodeData /\ [][NextNodeData]_vars

\* ======================================================================
\* The wallet of src/src/wallet/mod.rs
\* ======================================================================
\* A Wallet is used through &mut self, so its calls do not overlap; the
\* MemoryPool behind Arc<Mutex<..>> is shared with another thread, which takes
\* and frees the lock.  The amounts of the model stay far below u64::MAX, so
\* the sums of create_transaction and balance never overflow.

OwnKeys == 1..MaxKeys            \* the key hashes the wallet can come to own
Stranger == MaxKeys + 1          \* a key hash the wallet never owns
PubKeyHashes == OwnKeys \cup {Stranger}

InsufficientMoney == "InsufficientMoney"
MissingKey == "MissingKey"
NewContent == "NewContent"

\* tx.hash(): the hash names the content of the transaction
TxHash(t) == t

Output(recipient, value) == [recipient |-> recipient, value |-> value]
CoinId(hash, index) == [hash |-> hash, index |-> index]
Coin(coin_id, value, pubkey_hash) ==
    [utxo |-> [coin_id |-> coin_id, value |-> value], pubkey_hash |-> pubkey_hash]
Transaction(input, output) == [input |-> input, output |-> output, signatures |-> <<>>]

\* the coins receive(t) finds in t: the outputs sent to a key of the wallet;
\* Vec index idx is position idx + 1 here
CoinsOf(t) ==
    {Coin(CoinId(TxHash(t), idx - 1), t.output[idx].value, t.output[idx].recipient) :
        idx \in {i \in 1..Len(t.output) : t.output[i].recipient \in keypairs}}

RECURSIVE SumValues(_)
SumValues(cs) ==
    IF cs = {} THEN 0
    ELSE LET c == CHOOSE x \in cs : TRUE IN c.utxo.value + SumValues(cs \ {c})
\* Wallet::balance
balance == SumValues(coins)

RECURSIVE SumOutputs(_, _)
SumOutputs(output, n) ==
    IF n = 0 THEN 0 ELSE output[n].value + SumOutputs(output, n - 1)

\* the orders in which self.coins.iter() can yield the coins of the HashSet
RECURSIVE Orders(_)
Orders(cs) ==
    IF cs = {} THEN {<<>>}
    ELSE UNION {{<<c>> \o rest : rest \in Orders(cs \ {c})} : c \in cs}

\* the loop of create_transaction over the coins in `order`, from the i-th
\* on with value_sum so far: how many coins it has pushed when it ends
RECURSIVE CoinsPushed(_, _, _, _)
CoinsPushed(order, i, value_sum, value) ==
    IF i > Len(order) THEN Len(order)
    ELSE IF value_sum + order[i].utxo.value >= value THEN i
    ELSE CoinsPushed(order, i + 1, value_sum + order[i].utxo.value, value)

SeqToSet(q) == {q[i] : i \in 1..Len(q)}

\* MemoryPool::insert (crate::miner::memory_pool): the pool holds one more
\* transaction, the one inserted
MemoryPool_insert(pool, t) == Append(pool, t)

WalletReturned(op) == Returned(op, 0, H256Default, FALSE)
WalletFailed(op, err) == Panicked(op, 0, err)

\* ---------------------------------------------------------- generate_keypair
\* `hash`: the hash of the public key KeyPair::default() gives, a key the
\* wallet has or a new one
generate_keypair(hash) ==
    /\ keypairs' = keypairs \cup {hash}
    /\ result' = WalletReturned("generate_keypair")
    /\ UNCHANGED <<coins, mempool, mempool_lock, context_update_chan, received, pc, tx>>

\* ------------------------------------------------------------------- receive
receive(t) ==
    /\ coins' = coins \cup CoinsOf(t)
    /\ received' = received \cup {t}
    /\ result' = WalletReturned("receive")
    /\ UNCHANGED <<keypairs, mempool, mempool_lock, context_update_chan, pc, tx>>

\* --------------------------------------------------------- create_transaction
\* For one iteration order of the coins and, where change is due, one key
\* get_pubkey_hash can give: Err(e) with the wallet as it was, or the used
\* coins removed and the transaction in tx.
\* the coins the loop looked at are removed before the sum is compared
create_transaction_removing_first(recipient, value, order, own) ==
    LET used == SubSeq(order, 1, CoinsPushed(order, 1, 0, value))
        value_sum == SumValues(SeqToSet(used))
        input == [i \in 1..Len(used) |-> used[i].utxo.coin_id]
    IN IF value_sum < value
       THEN /\ result' = WalletFailed("pay", InsufficientMoney)
            /\ coins' = coins \ SeqToSet(used)
            /\ UNCHANGED <<tx, pc>>
       ELSE IF value_sum > value /\ keypairs = {}
       THEN /\ result' = WalletFailed("pay", MissingKey)
            /\ UNCHANGED <<coins, tx, pc>>
       ELSE /\ tx' = Transaction(input,
                        IF value_sum > value
                        THEN <<Output(recipient, value), Output(own, value_sum - value)>>
                        ELSE <<Output(recipient, value)>>)
            /\ coins' = coins \ SeqToSet(used)
            /\ pc' = "lock"
            /\ UNCHANGED result

\* the used coins stay in the wallet
create_transaction_keeping(recipient, value, order, own) ==
    LET used == SubSeq(order, 1, CoinsPushed(order, 1, 0, value))
        value_sum == SumValues(SeqToSet(used))
        input == [i \in 1..Len(used) |-> used[i].utxo.coin_id]
    IN IF value_sum < value
       THEN /\ result' = WalletFailed("pay", InsufficientMoney)
            /\ UNCHANGED <<coins, tx, pc>>
       ELSE IF value_sum > value /\ keypairs = {}
       THEN /\ result' = WalletFailed("pay", MissingKey)
            /\ UNCHANGED <<coins, tx, pc>>
       ELSE /\ tx' = Transaction(input,
                        IF value_sum > value
                        THEN <<Output(recipient, value), Output(own, value_sum - value)>>
                        ELSE <<Output(recipient, value)>>)
            /\ UNCHANGED coins
            /\ pc' = "lock"
            /\ UNCHANGED result

create_transaction(recipient, value, order, own) ==
    LET used == SubSeq(order, 1, CoinsPushed(order, 1, 0, value))
        value_sum == SumValues(SeqToSet(used))
        input == [i \in 1..Len(used) |-> used[i].utxo.coin_id]
    IN IF value_sum < value
       THEN /\ result' = WalletFailed("pay", InsufficientMoney)
            /\ UNCHANGED <<coins, tx, pc>>
       ELSE IF value_sum > value /\ keypairs = {}
       THEN /\ result' = WalletFailed("pay", MissingKey)
            /\ UNCHANGED <<coins, tx, pc>>
       ELSE /\ tx' = Transaction(input,
                        IF value_sum > value
                        THEN <<Output(recipient, value), Output(own, value_sum - value)>>
                        ELSE <<Output(recipient, value)>>)
            /\ coins' = coins \ SeqToSet(used)
            /\ pc' = "lock"
            /\ UNCHANGED result

\* ----------------------------------------------------------------------- pay
\* let tx = self.create_transaction(recipient, value)?; let hash = tx.hash();
pay_create(recipient, value) ==
    /\ pc = "idle"
    /\ \E order \in Orders(coins), own \in keypairs \cup {H256Default} :
          /\ own = H256Default <=> keypairs = {}
          /\ create_transaction(recipient, value, order, own)
    /\ UNCHANGED <<keypairs, mempool, mempool_lock, context_update_chan, received>>

\* let mut mempool = self.mempool.lock().unwrap(); mempool.insert(tx);
\* the call waits while the lock is held
pay_insert ==
    /\ pc = "lock"
    /\ mempool_lock = "free"
    /\ mempool_lock' = "wallet"
    /\ mempool' = MemoryPool_insert(mempool, tx)
    /\ pc' = "drop"
    /\ UNCHANGED <<coins, keypairs, context_update_chan, received, tx, result>>

\* the guard is kept over the send
pay_drop_keeping_lock ==
    /\ pc = "drop"
    /\ pc' = "send"
    /\ UNCHANGED <<coins, keypairs, mempool, mempool_lock, context_update_chan,
                   received, tx, result>>

\* drop(mempool);
pay_drop ==
    /\ pc = "drop"
    /\ mempool_lock' = "free"
    /\ pc' = "send"
    /\ UNCHANGED <<coins, keypairs, mempool, context_update_chan, received, tx, result>>

\* self.context_update_chan.send(ContextUpdateSignal::NewContent).unwrap();
\* Ok(hash), the hash of tx
pay_send ==
    /\ pc = "send"
    /\ context_update_chan' = Append(context_update_chan, NewContent)
    /\ pc' = "idle"
    /\ result' = WalletReturned("pay")
    /\ UNCHANGED <<coins, keypairs, mempool, mempool_lock, received, tx>>

\* ------------------------------------------------ another user of the MemoryPool
other_lock ==
    /\ mempool_lock = "free"
    /\ mempool_lock' = "other"
    /\ UNCHANGED <<coins, keypairs, mempool, context_update_chan, received, pc, tx, result>>
other_unlock ==
    /\ mempool_lock = "other"
    /\ mempool_lock' = "free"
    /\ UNCHANGED <<coins, keypairs, mempool, context_update_chan, received, pc, tx, result>>

\* ------------------------------------------------ specification of a Wallet
\* transactions without inputs that pay 1..MaxOutputs equal outputs to one key
FundingTransactions ==
    {Transaction(<<>>, [i \in 1..n |-> Output(recipient, value)]) :
        n \in 1..MaxOutputs, recipient \in PubKeyHashes, value \in 1..MaxValue}

\* a call on the Wallet leaves everything else alone
OnlyWallet == UNCHANGED <<tree, store, nodeVars, threadVars>>

\* What the wallet was given and has paid, kept within the bounds.
RECURSIVE Funds(_)
Funds(ts) ==
    IF ts = {} THEN 0
    ELSE LET t == CHOOSE x \in ts : TRUE
         IN (IF t.input = <<>> THEN SumOutputs(t.output, Len(t.output)) ELSE 0)
                + Funds(ts \ {t})
WalletItems ==
    Cardinality(keypairs) + Cardinality(received) + Funds(received) + Len(mempool)
WalletWithinBounds == WalletItems <= MaxWalletItems

\* each transaction reaches receive once, and only between two calls of pay
GenerateKeypair ==
    \E hash \in OwnKeys :
        /\ pc = "idle"
        /\ generate_keypair(hash)
        /\ WalletWithinBounds'
        /\ OnlyWallet
Receive ==
    \E t \in FundingTransactions \cup SeqToSet(mempool) :
        /\ pc = "idle"
        /\ t \notin received
        /\ receive(t)
        /\ WalletWithinBounds'
        /\ OnlyWallet
PayCreate ==
    \E recipient \in PubKeyHashes, value \in 0..MaxValue :
        WalletItems < MaxWalletItems /\ pay_create(recipient, value) /\ OnlyWallet
PayInsert == pay_insert /\ OnlyWallet
PayDrop == pay_drop /\ OnlyWallet
PaySend == pay_send /\ OnlyWallet
OtherLock == other_lock /\ OnlyWallet
OtherUnlock == other_unlock /\ OnlyWallet

InitWallet ==
    /\ best_block = H256Default
    /\ best_level = 0
    /\ prop_nodes = <<>>
    /\ number_of_votes = [l \in {} |-> 0]
    /\ min_unconfirmed_level = 1
    /\ unreferred = {}
    /\ db = EmptyStore
    /\ poisoned = FALSE
    /\ node = NodeData_default
    /\ overflow_checks = TRUE
    /\ Wallet_new
    /\ NoCalls
    /\ result = WalletReturned("new")

NextWallet ==
    \/ GenerateKeypair
    \/ Receive
    \/ PayCreate
    \/ PayInsert
    \/ PayDrop
    \/ PaySend
    \/ OtherLock
    \/ OtherUnlock

SpecWallet == InitWallet /\ [][NextWallet]_vars

\* ======================================================================
\* insert_leader_block called by two threads
\* ======================================================================
\* Two threads, each with a Tree that holds a clone of the same
\* Arc<Mutex<BlockChainDatabase>>, each calling insert_leader_block once on a
\* new store.  The steps of a call are the steps of lines 149-159: the lock,
\* the read, the match with the write or the panic, the return that drops
\* the guard.

\* the lock is taken whoever holds it
thread_lock_unguarded(t) ==
    /\ thread[t].pc = "lock"
    /\ IF poisoned
       THEN /\ thread' = [thread EXCEPT ![t].pc = "done", ![t].outcome = PanicPoison]
            /\ UNCHANGED <<db_lock, db, poisoned>>
       ELSE /\ db_lock' = t
            /\ thread' = [thread EXCEPT ![t].pc = "get"]
            /\ UNCHANGED <<db, poisoned>>

\* the call begins
thread_call(t, level, hash) ==
    /\ thread[t].pc = "idle"
    /\ thread' = [thread EXCEPT ![t].pc = "lock", ![t].level = level, ![t].hash = hash]
    /\ UNCHANGED <<db_lock, db, poisoned>>

\* let db = self.db.lock().unwrap();  waits while another thread holds the
\* lock, panics when the mutex is poisoned
thread_lock(t) ==
    /\ thread[t].pc = "lock"
    /\ db_lock = NoThread
    /\ IF poisoned
       THEN /\ thread' = [thread EXCEPT ![t].pc = "done", ![t].outcome = PanicPoison]
            /\ UNCHANGED <<db_lock, db, poisoned>>
       ELSE /\ db_lock' = t
            /\ thread' = [thread EXCEPT ![t].pc = "get"]
            /\ UNCHANGED <<db, poisoned>>

\* let serialized = db.handle.get_cf(cf, &key).unwrap();
thread_get(t) ==
    /\ thread[t].pc = "get"
    /\ thread' = [thread EXCEPT ![t].pc = "match",
                                ![t].serialized = get_cf(db, serialize_u32(thread[t].level))]
    /\ UNCHANGED <<db_lock, db, poisoned>>

\* match serialized: Some(_) panics, and the unwinding drops the guard and
\* poisons the mutex; None writes
thread_match(t) ==
    /\ thread[t].pc = "match"
    /\ IF thread[t].serialized # <<>>
       THEN /\ thread' = [thread EXCEPT ![t].pc = "done", ![t].outcome = PanicExists]
            /\ poisoned' = TRUE
            /\ db_lock' = IF db_lock = t THEN NoThread ELSE db_lock
            /\ UNCHANGED db
       ELSE /\ db' = put_cf(db, serialize_u32(thread[t].level),
                            serialize_H256(thread[t].hash))
            /\ thread' = [thread EXCEPT ![t].pc = "return"]
            /\ UNCHANGED <<db_lock, poisoned>>

\* the call returns and the guard is dropped
thread_return(t) ==
    /\ thread[t].pc = "return"
    /\ thread' = [thread EXCEPT ![t].pc = "done", ![t].outcome = OK]
    /\ db_lock' = IF db_lock = t THEN NoThread ELSE db_lock
    /\ UNCHANGED <<db, poisoned>>

\* a step of a thread leaves everything but the threads and the store alone
OnlyThreads == UNCHANGED <<tree, result, nodeVars, walletVars>>

ThreadCall ==
    \E t \in Threads, level \in KeyLevels, hash \in Hashes :
        thread_call(t, level, hash) /\ OnlyThreads
ThreadLock == \E t \in Threads : thread_lock(t) /\ OnlyThreads
ThreadGet == \E t \in Threads : thread_get(t) /\ OnlyThreads
ThreadMatch == \E t \in Threads : thread_match(t) /\ OnlyThreads
ThreadReturn == \E t \in Threads : thread_return(t) /\ OnlyThreads

InitThreads ==
    /\ best_block = H256Default
    /\ best_level = 0
    /\ prop_nodes = <<>>
    /\ number_of_votes = [l \in {} |-> 0]
    /\ min_unconfirmed_level = 1
    /\ unreferred = {}
    /\ db = EmptyStore
    /\ poisoned = FALSE
    /\ node = NodeData_default
    /\ overflow_checks = TRUE
    /\ Wallet_new
    /\ NoCalls
    /\ result = Returned("new", 0, H256Default, FALSE)

NextThreads ==
    \/ ThreadCall
    \/ ThreadLock
    \/ ThreadGet
    \/ ThreadMatch
    \/ ThreadReturn

SpecThreads == InitThreads /\ [][NextThreads]_vars

\* ======================================================================
\* Claims about add_block_at_level
\* ======================================================================

\* C1: once a block has been added, prop_nodes.length == best_level + 1.
\* (Stated as the claim has it; the code keeps prop_nodes.length == best_level,
\* because Tree::new starts with no level 0 and best_level 0.)
C1_LengthIsBestLevelPlusOne ==
    NumBlocks > 0 => Len(prop_nodes) = best_level + 1

\* C2: add_block_at_level(hash, level) with level >= best_level + 2 panics
\* with the protocol-violation message and leaves best_block, best_level,
\* prop_nodes, number_of_votes, min_unconfirmed_level and unreferred (and the
\* leader store) exactly as they were.
C2_GapInsertFailsUnchanged ==
    [][\A block \in Hashes, level \in Levels :
          (level >= best_level + 2 /\ add_block_at_level(block, level))
              => /\ result'.op = "add_block_at_level"
                 /\ result'.kind = PanicGap
                 /\ best_block' = best_block
                 /\ best_level' = best_level
                 /\ prop_nodes' = prop_nodes
                 /\ number_of_votes' = number_of_votes
                 /\ min_unconfirmed_level' = min_unconfirmed_level
                 /\ unreferred' = unreferred
                 /\ db' = db]_vars

\* C2 witness: a call two levels above the frontier has just panicked, on a
\* tree that already holds a block.
C2_Witness ==
    /\ result.op = "add_block_at_level"
    /\ result.kind = PanicGap
    /\ result.level >= best_level + 2
    /\ NumBlocks > 0

\* C3 (as claimed): add_block_at_level(hash, level) with level <= best_level
\* returns normally, appends hash as the last element of prop_nodes[level]
\* and leaves best_block, best_level and every other level alone.
C3_ForkAppends ==
    [][\A block \in Hashes, level \in Levels :
          (level <= best_level /\ add_block_at_level(block, level))
              => /\ result'.kind = OK
                 /\ level + 1 <= Len(prop_nodes)
                 /\ prop_nodes' = [prop_nodes EXCEPT ![level + 1] = Append(@, block)]
                 /\ best_block' = best_block
                 /\ best_level' = best_level]_vars

\* C4 (as claimed): add_block_at_level(hash, level) with level == best_level + 1
\* makes prop_nodes[level] (position level + 1 here) the list [hash], sets
\* best_level and best_block, and leaves the existing levels alone.
C4_NewLevelAtIndexLevel ==
    [][\A block \in Hashes, level \in Levels :
          (level = best_level + 1 /\ add_block_at_level(block, level))
              => /\ result'.kind = OK
                 /\ Len(prop_nodes') >= level + 1
                 /\ prop_nodes'[level + 1] = <<block>>
                 /\ best_level' = level
                 /\ best_block' = block
                 /\ \A i \in 1..Len(prop_nodes) : prop_nodes'[i] = prop_nodes[i]]_vars

\* C5: over every step of every operation, failing calls included,
\* best_level never decreases, prop_nodes never gets shorter, and a hash at
\* some position of some level stays at that position.
C5_FrontierMonotonic ==
    [][/\ best_level' >= best_level
       /\ Len(prop_nodes') >= Len(prop_nodes)
       /\ \A i \in 1..Len(prop_nodes) :
             /\ Len(prop_nodes'[i]) >= Len(prop_nodes[i])
             /\ \A j \in 1..Len(prop_nodes[i]) :
                   prop_nodes'[i][j] = prop_nodes[i][j]]_vars

\* C5 witness: a fork has been appended behind an earlier block of its level
\* and a later call has failed.
C5_Witness ==
    /\ Len(prop_nodes) >= 1
    /\ Len(prop_nodes[1]) >= 2
    /\ result.kind # OK

\* ======================================================================
\* Claims about the leader store
\* ======================================================================

\* C6 (as claimed): with a leader stored at L, insert_leader_block(L, h2)
\* panics with the double-assignment message and writes nothing, and
\* get_leader_block_at(L) called after that failed insert returns the leader
\* stored first.
C6_SecondInsertFailsGetReturnsFirst ==
    [][\A level \in KeyLevels :
          /\ \A hash \in Hashes :
                (HasLeader(level) /\ ~poisoned /\ insert_leader_block(level, hash))
                    => (result'.kind = PanicExists /\ db' = db)
          /\ (/\ result.op = "insert_leader_block"
              /\ result.kind = PanicExists
              /\ result.level = level
              /\ get_leader_block_at(level))
                    => (result'.kind = OK /\ result'.hash = LeaderAt(level))]_vars

\* Every entry of the store is the entry of exactly one level and holds one hash.
OneLeaderPerLevel ==
    \A key \in DOMAIN db :
        /\ Cardinality({level \in KeyLevels : serialize_u32(level) = key}) = 1
        /\ Cardinality({hash \in Hashes : serialize_H256(hash) = db[key]}) = 1

\* C7: the store holds at most one hash per level, and the leader stored at
\* L stays the same over every step that is not a remove_leader_block(L):
\* no other operation, and no insert, changes or deletes it.  (A step that
\* leaves db as it was keeps both.)
C7_LeaderEntriesImmutable ==
    /\ OneLeaderPerLevel
    /\ [][db' # db =>
            /\ OneLeaderPerLevel'
            /\ \A level \in KeyLevels :
                  (/\ HasLeader(level)
                   /\ ~(\E deleted \in BOOLEAN : remove_leader_block(level, deleted)))
                      => get_cf(db', serialize_u32(level)) = get_cf(db, serialize_u32(level))]_vars

\* C7 witness: both key levels hold a leader, different ones, and an insert
\* at a level that had its leader has just been refused.
C7_Witness ==
    /\ \A level \in KeyLevels : HasLeader(level)
    /\ LeaderAt(0) # LeaderAt(1)
    /\ result.op = "insert_leader_block"
    /\ result.kind = PanicExists

\* C8 (as claimed): remove_leader_block(L) fails when the store has no entry
\* at L.
C8_RemoveAbsentFails ==
    [][\A level \in KeyLevels, deleted \in BOOLEAN :
          (/\ result'.op = "remove_leader_block"
           /\ ~HasLeader(level)
           /\ remove_leader_block(level, deleted))
              => result'.kind # OK]_vars

\* C8 (amended): remove_leader_block(L) with no entry at L leaves the store
\* and the tree as they were; it returns normally exactly when the lock is
\* not poisoned and the storage delete reports no error, and panics only with
\* the poisoned-lock or the database-error message.
C8_RemoveAbsentIsNoOp ==
    [][\A level \in KeyLevels, deleted \in BOOLEAN :
          (/\ result'.op = "remove_leader_block"
           /\ ~HasLeader(level)
           /\ remove_leader_block(level, deleted))
              => /\ db' = db
                 /\ tree' = tree
                 /\ (result'.kind = OK) <=> (~poisoned /\ deleted)
                 /\ result'.kind \in {OK, PanicPoison, PanicDatabase}
                 /\ (result'.kind = PanicDatabase) <=> (~poisoned /\ ~deleted)]_vars

\* C8 witness: a remove at a level that held no leader has returned normally,
\* with a leader stored at another level.
C8_Witness ==
    /\ result.op = "remove_leader_block"
    /\ result.kind = OK
    /\ ~result.found
    /\ \E other \in KeyLevels : other # result.level /\ HasLeader(other)

\* The last call was a remove_leader_block(level) that returned normally.
JustRemoved(level) ==
    /\ result.op = "remove_leader_block"
    /\ result.kind = OK
    /\ result.level = level
\* The last call was a contains_leader_block_at(level) that answered false.
JustProbedAbsent(level) ==
    /\ result.op = "contains_leader_block_at"
    /\ result.kind = OK
    /\ result.level = level
    /\ ~result.flag

\* C9: a remove_leader_block(L) that returns normally on a store holding a
\* leader at L leaves no entry at L and the other levels untouched; after it
\* contains_leader_block_at(L) returns false and insert_leader_block(L, h')
\* returns normally and stores h'.
C9_RemoveMakesLevelAssignable ==
    [][\A level \in KeyLevels :
          /\ (/\ result'.op = "remove_leader_block"
              /\ ~poisoned
              /\ HasLeader(level)
              /\ remove_leader_block(level, TRUE))
                => /\ result'.kind = OK
                   /\ ~HasLeader(level)'
                   /\ \A other \in KeyLevels \ {level} :
                         get_cf(db', serialize_u32(other)) = get_cf(db, serialize_u32(other))
          /\ (JustRemoved(level) /\ contains_leader_block_at(level))
                => (result'.kind = OK /\ result'.flag = FALSE /\ db' = db)
          /\ \A hash \in Hashes :
                ((JustRemoved(level) \/ JustProbedAbsent(level))
                    /\ insert_leader_block(level, hash))
                => /\ result'.kind = OK
                   /\ HasLeader(level)'
                   /\ LeaderAt(level)' = hash
                   /\ \A other \in KeyLevels \ {level} :
                         get_cf(db', serialize_u32(other)) = get_cf(db, serialize_u32(other))]_vars

\* C9 witness: a remove at a level that held a leader has returned normally;
\* that level is empty and another level still holds its leader.
C9_Witness ==
    \E level \in KeyLevels :
        /\ JustRemoved(level)
        /\ result.found
        /\ ~HasLeader(level)
        /\ \E other \in KeyLevels : other # level /\ HasLeader(other)

\* C10 (as claimed): in every reachable state contains_leader_block_at(L)
\* returns, true exactly when the store has an entry at L;
\* get_leader_block_at(L) returns the stored hash when there is one and
\* panics when there is none; neither changes the store.
C10_ProbeNeverFails ==
    [][\A level \in KeyLevels :
          /\ contains_leader_block_at(level)
                => (result'.kind = OK /\ result'.flag = HasLeader(level) /\ db' = db)
          /\ get_leader_block_at(level)
                => /\ db' = db
                   /\ IF HasLeader(level)
                      THEN result'.kind = OK /\ result'.hash = LeaderAt(level)
                      ELSE result'.kind # OK]_vars

\* ======================================================================
\* Claims about the vote counters and the unreferred pool
\* ======================================================================

\* C11: number_of_votes[L] is the number of increment_vote_at_level(L) calls
\* made so far.  A new Tree has no entry (every level reads as 0); each
\* increment_vote_at_level(L) returns, raises the counter of L by exactly one
\* and leaves every other level's counter (and its absence from the map) as
\* it was; no other operation, returning or failing, touches the map.
C11_VotesCountIncrements ==
    /\ DOMAIN number_of_votes = {}
    /\ [][/\ \A level \in KeyLevels :
                (increment_vote_at_level(level)
                    => /\ result'.kind = OK
                       /\ level \in DOMAIN number_of_votes'
                       /\ number_of_votes'[level] = Votes(level) + 1
                       /\ \A other \in KeyLevels \ {level} :
                             /\ (other \in DOMAIN number_of_votes')
                                    <=> (other \in DOMAIN number_of_votes)
                             /\ Votes(other)' = Votes(other))
          /\ (~(\E level \in KeyLevels : increment_vote_at_level(level))
                    => number_of_votes' = number_of_votes)]_vars

\* C11 witness: the second vote at level 1 has just been counted, with
\* level 0 never voted.
C11_Witness ==
    /\ result.op = "increment_vote_at_level"
    /\ result.level = 1
    /\ Votes(1) = 2
    /\ 0 \notin DOMAIN number_of_votes

\* C12: insert_unreferred(h) and remove_unreferred(h) always return; after
\* insert_unreferred(h) the pool holds h, after remove_unreferred(h) it does
\* not (however often h was inserted before); inserting a hash the pool
\* already holds and removing one it does not hold leave the pool as it was;
\* the membership of every other hash is unchanged.
C12_UnreferredIdempotent ==
    [][\A hash \in Hashes :
          /\ insert_unreferred(hash)
                => /\ result'.kind = OK
                   /\ hash \in unreferred'
                   /\ (hash \in unreferred) => (unreferred' = unreferred)
                   /\ \A other \in Hashes \ {hash} :
                         (other \in unreferred') <=> (other \in unreferred)
          /\ remove_unreferred(hash)
                => /\ result'.kind = OK
                   /\ hash \notin unreferred'
                   /\ (hash \notin unreferred) => (unreferred' = unreferred)
                   /\ \A other \in Hashes \ {hash} :
                         (other \in unreferred') <=> (other \in unreferred)]_vars

\* C12 witness: a hash the pool already held has just been inserted again,
\* next to another hash of the pool.
C12_Witness ==
    /\ result.op = "insert_unreferred"
    /\ result.kind = OK
    /\ result.found
    /\ Cardinality(unreferred) = 2

\* the hashes prop_nodes holds, at any level
AddedBlocks ==
    UNION {{prop_nodes[i][j] : j \in 1..Len(prop_nodes[i])} : i \in 1..Len(prop_nodes)}

\* C13 (as claimed): in every reachable state every hash of unreferred is a
\* hash that a successful add_block_at_level put into some prop_nodes[L].
\* (That the hash was not removed since its last insert holds by
\* remove_unreferred, see C12.)
C13_UnreferredAreAddedBlocks ==
    unreferred \subseteq AddedBlocks

\* ======================================================================
\* The end-to-end scenario
\* ======================================================================

\* the Tree holds what Tree::new gave it
FreshTree ==
    best_block = H256Default /\ best_level = 0 /\ prop_nodes = <<>>
\* the Tree holds one block, b1, added at level 1
HoldsFirstBlock(b1) ==
    best_level = 1 /\ best_block = b1 /\ NumBlocks = 1 /\ AddedBlocks = {b1}
\* the last call was an insert_leader_block(level, _) that ended as `kind`
JustInserted(level, kind) ==
    /\ result.op = "insert_leader_block"
    /\ result.kind = kind
    /\ result.level = level

\* C14 (as claimed): the steps of the scenario, each taken from the state
\* the steps before it lead to, for any two blocks B1 # B2:
\*   add_block_at_level(B1, 1) on a new Tree gives best_level 1, best_block B1;
\*   add_block_at_level(B2, 1) then returns and gives prop_nodes[1] = [B1, B2]
\*     (position 2 here) with best_level unchanged;
\*   every increment_vote_at_level(1) raises number_of_votes[1] by one, so
\*     three of them give 3;
\*   insert_leader_block(1, B1) on the empty store returns, and
\*     get_leader_block_at(1) then returns B1;
\*   insert_leader_block(1, B2) then panics, and get_leader_block_at(1) after
\*     it still returns B1.
C14_Scenario ==
    [][\A B1 \in Hashes, B2 \in Hashes :
          B1 # B2 =>
          /\ (FreshTree /\ add_block_at_level(B1, 1))
                => (result'.kind = OK /\ best_level' = 1 /\ best_block' = B1)
          /\ (HoldsFirstBlock(B1) /\ add_block_at_level(B2, 1))
                => /\ result'.kind = OK
                   /\ Len(prop_nodes') >= 2
                   /\ prop_nodes'[2] = <<B1, B2>>
                   /\ best_level' = best_level
          /\ increment_vote_at_level(1)
                => (result'.kind = OK /\ number_of_votes'[1] = Votes(1) + 1)
          /\ (~poisoned /\ ~HasLeader(1) /\ insert_leader_block(1, B1))
                => (result'.kind = OK /\ HasLeader(1)' /\ LeaderAt(1)' = B1)
          /\ (JustInserted(1, OK) /\ LeaderAt(1) = B1 /\ get_leader_block_at(1))
                => (result'.kind = OK /\ result'.hash = B1)
          /\ (~poisoned /\ HasLeader(1) /\ LeaderAt(1) = B1
                  /\ insert_leader_block(1, B2))
                => (result'.kind = PanicExists /\ db' = db)
          /\ (JustInserted(1, PanicExists) /\ LeaderAt(1) = B1
                  /\ get_leader_block_at(1))
                => (result'.kind = OK /\ result'.hash = B1)]_vars

\* ======================================================================
\* Claims about NodeData
\* ======================================================================

\* C15 (as claimed): decrement_vote on a NodeData with votes == 0 fails: it
\* does not return, does not leave votes at 65535 and does not leave votes
\* larger than before; with votes > 0 it returns and lowers votes by exactly
\* one; increment_vote returns and raises votes by exactly one; both leave
\* level and leadership_status as they were.
C15_DecrementAtZeroFails ==
    [][/\ decrement_vote
            => /\ node'.level = node.level
               /\ node'.leadership_status = node.leadership_status
               /\ IF node.votes = 0
                  THEN /\ result'.kind # OK
                       /\ node'.votes # U16 - 1
                       /\ node'.votes <= node.votes
                  ELSE /\ result'.kind = OK
                       /\ node'.votes = node.votes - 1
       /\ increment_vote
            => /\ node'.level = node.level
               /\ node'.leadership_status = node.leadership_status
               /\ result'.kind = OK
               /\ node'.votes = node.votes + 1]_vars

\* ======================================================================
\* Claims about the wallet
\* ======================================================================

\* C16: a pay(recipient, value) on a wallet whose coins are worth less than
\* value (a wallet without coins or keys included) returns an error and
\* leaves the coins, the balance, the MemoryPool and the channel as they were;
\* a pay the coins can fund, after a failed one or not, gets its transaction
\* and goes on to the MemoryPool.
C16_UnfundedPayChangesNothing ==
    [][\A recipient \in PubKeyHashes, value \in 0..MaxValue :
          pay_create(recipient, value)
              => IF balance < value
                 THEN /\ result'.op = "pay"
                      /\ result'.kind \in {InsufficientMoney, MissingKey}
                      /\ coins' = coins
                      /\ balance' = balance
                      /\ mempool' = mempool
                      /\ context_update_chan' = context_update_chan
                      /\ pc' = "idle"
                 ELSE /\ pc' = "lock"
                      /\ tx'.output[1] = Output(recipient, value)]_vars

\* C16 witness: a pay has just failed for lack of money on a wallet that
\* holds a coin and has paid before.
C16_Witness ==
    /\ result.op = "pay"
    /\ result.kind = InsufficientMoney
    /\ coins # {}
    /\ Len(mempool) >= 1
    /\ Len(context_update_chan) = Len(mempool)

\* the coin ids used as inputs by the transactions of the MemoryPool, one
\* for each use
InputsUsed ==
    UNION {{<<k, i>> : i \in 1..Len(mempool[k].input)} : k \in 1..Len(mempool)}
\* no coin id is the input of two transactions, or twice of one
NoDoubleSpend ==
    \A a \in InputsUsed, b \in InputsUsed :
        mempool[a[1]].input[a[2]] = mempool[b[1]].input[b[2]] => a = b

\* what a successful create_transaction does: the coins removed are exactly
\* the inputs, worth value plus change; one output of value to recipient and,
\* iff the inputs are worth more, one of the difference to a key of the wallet
PayConservesValue(recipient, value) ==
    LET spent == coins \ coins'
        worth == SumValues(spent)
    IN /\ coins' \subseteq coins
       /\ {c.utxo.coin_id : c \in spent} = SeqToSet(tx'.input)
       /\ Len(tx'.input) = Cardinality(spent)
       /\ worth >= value
       /\ tx'.output[1] = Output(recipient, value)
       /\ Len(tx'.output) = (IF worth > value THEN 2 ELSE 1)
       /\ worth > value =>
             /\ tx'.output[2].recipient \in keypairs
             /\ tx'.output[2].value = worth - value
       /\ balance' = balance - worth

\* C17 (as claimed): every successful pay conserves value (PayConservesValue),
\* no coin is an input twice, and the receive of a transaction the wallet
\* created brings back the change alone, so that pay and receive together
\* lower the balance by the value paid.
C17_PayLowersBalanceByValue ==
    /\ NoDoubleSpend
    /\ [][/\ NoDoubleSpend'
          /\ \A recipient \in PubKeyHashes, value \in 0..MaxValue :
                (pay_create(recipient, value) /\ pc' = "lock")
                    => PayConservesValue(recipient, value)
          /\ \A t \in SeqToSet(mempool) :
                (t \notin received /\ receive(t))
                    => balance' = balance + SumOutputs(t.output, Len(t.output))
                                          - t.output[1].value]_vars

\* the worth of the outputs of t paid to keys of the wallet
RECURSIVE OwnOutputs(_, _)
OwnOutputs(t, n) ==
    IF n = 0 THEN 0
    ELSE (IF t.output[n].recipient \in keypairs THEN t.output[n].value ELSE 0)
            + OwnOutputs(t, n - 1)

\* C17 (amended): every successful pay conserves value, no coin is an input
\* twice, and the receive of a transaction the wallet created brings back
\* the outputs paid to the wallet's keys: the change, and the value paid
\* when the recipient is a key of the wallet.  Pay and receive together
\* lower the balance by the value paid exactly when the recipient is not a
\* key of the wallet, and leave it as it was otherwise.
C17_PayLowersBalanceByValuePaidAway ==
    /\ NoDoubleSpend
    /\ [][/\ NoDoubleSpend'
          /\ \A recipient \in PubKeyHashes, value \in 0..MaxValue :
                (pay_create(recipient, value) /\ pc' = "lock")
                    => PayConservesValue(recipient, value)
          /\ \A t \in SeqToSet(mempool) :
                (t \notin received /\ receive(t))
                    => /\ balance' = balance + OwnOutputs(t, Len(t.output))
                       /\ balance' = balance + SumOutputs(t.output, Len(t.output))
                                       - (IF t.output[1].recipient \in keypairs
                                          THEN 0 ELSE t.output[1].value)]_vars

\* C17 witness: the wallet has received a transaction it created that pays a
\* stranger and returns change, and holds the change as a coin.
C17_Witness ==
    /\ result.op = "receive"
    /\ \E t \in SeqToSet(mempool) \cap received :
          /\ Len(t.input) >= 1
          /\ Len(t.output) = 2
          /\ t.output[1].recipient = Stranger
          /\ \E c \in coins : c.utxo.coin_id = CoinId(TxHash(t), 1)

\* C18: the MemoryPool grows only by the insert of a pay, by the one
\* transaction of that pay, under the lock; the channel grows only by the
\* send of a pay, by one NewContent, after the insert and with the lock
\* released by the wallet, and the pay then returns Ok; whenever no pay is
\* running the MemoryPool holds as many transactions as signals were sent.
C18_OneInsertThenOneSignal ==
    /\ Len(mempool) = Len(context_update_chan)
    /\ [][/\ mempool' # mempool
             => /\ pay_insert
                /\ mempool' = Append(mempool, tx)
                /\ mempool_lock' = "wallet"
                /\ Len(context_update_chan) = Len(mempool)
          /\ context_update_chan' # context_update_chan
             => /\ pay_send
                /\ context_update_chan' = Append(context_update_chan, NewContent)
                /\ mempool_lock # "wallet"
                /\ Len(mempool) = Len(context_update_chan) + 1
                /\ mempool[Len(mempool)] = tx
                /\ result'.op = "pay" /\ result'.kind = OK
          /\ (result' # result /\ result'.op = "pay" /\ result'.kind = OK)
             => pay_send
          /\ pc' = "idle" => Len(mempool') = Len(context_update_chan')]_vars

\* C18 witness: the second successful pay has just returned, after a wait
\* for the lock is possible: two transactions in the MemoryPool, two signals
\* on the channel.
C18_Witness ==
    /\ pc = "idle"
    /\ result.op = "pay"
    /\ result.kind = OK
    /\ Len(mempool) = 2
    /\ Len(context_update_chan) = 2
    /\ mempool[1] # mempool[2]

\* ======================================================================
\* Claims about concurrent leader assignment
\* ======================================================================

\* a thread is between taking the lock and dropping the guard
InCriticalSection(t) == thread[t].pc \in {"get", "match", "return"}

\* the call of the thread has written its hash
Wrote(t) == thread[t].pc = "return" \/ thread[t].outcome = OK

\* C19: of two threads that call insert_leader_block for the same level of a
\* new store, each reads and writes with the lock held and the other outside
\* (the check and the write are one atomic step); both never write, the hash
\* written stays in the store (the later call does not overwrite it), and
\* when both calls have ended exactly one has returned and the other has
\* panicked with the double-assignment message.
C19_OneConcurrentInsertWins ==
    \A t \in Threads : \A u \in Threads \ {t} :
        /\ InCriticalSection(t) => (db_lock = t /\ ~InCriticalSection(u))
        /\ thread[t].level = thread[u].level =>
              /\ ~(Wrote(t) /\ Wrote(u))
              /\ Wrote(t) => /\ HasLeader(thread[t].level)
                             /\ LeaderAt(thread[t].level) = thread[t].hash
              /\ (thread[t].pc = "done" /\ thread[u].pc = "done")
                    => {thread[t].outcome, thread[u].outcome} = {OK, PanicExists}

\* C19 witness: both threads have called with the same level and different
\* hashes; t2 has returned, t1 has panicked, the store holds the hash of t2.
C19_Witness ==
    /\ thread["t1"].pc = "done" /\ thread["t2"].pc = "done"
    /\ thread["t1"].level = thread["t2"].level
    /\ thread["t1"].hash # thread["t2"].hash
    /\ thread["t2"].outcome = OK
    /\ thread["t1"].outcome = PanicExists
    /\ LeaderAt(thread["t2"].level) = thread["t2"].hash

\* ======================================================================
\* Claims about what the operations leave alone
\* ======================================================================

\* the four operations on the leader store, as the call record names them
LeaderStoreOps ==
    {"insert_leader_block", "remove_leader_block", "get_leader_block_at",
     "contains_leader_block_at"}

\* C20: min_unconfirmed_level is 1 after Tree::new and no operation of the
\* Tree, returning or panicking, changes it; the four operations on the
\* leader store leave best_block, best_level, prop_nodes, number_of_votes
\* and unreferred as they were.
C20_WatermarkAndFrame ==
    /\ min_unconfirmed_level = 1
    /\ [][/\ min_unconfirmed_level' = min_unconfirmed_level
          /\ result'.op \in LeaderStoreOps =>
                /\ best_block' = best_block
                /\ best_level' = best_level
                /\ prop_nodes' = prop_nodes
                /\ number_of_votes' = number_of_votes
                /\ unreferred' = unreferred]_vars

\* C20 witness: a leader has just been stored at level 1 of a tree that
\* holds a block at level 1 and an unreferred hash; the watermark is 1.
C20_Witness ==
    /\ result.op = "insert_leader_block"
    /\ result.kind = OK
    /\ result.level = 1
    /\ best_level = 1
    /\ unreferred # {}
    /\ min_unconfirmed_level = 1

====
